---- MODULE Spec2Model ----
(***************************************************************************)
(* A model of the gdb-devtools language model: the line segmenter and the  *)
(* tokenizer (iters.rs), the parser (parse.rs), the completion context     *)
(* (completions.rs), the semantic index Semantics (lib.rs) and the         *)
(* language server's recursive load of a file (gdbls main.rs).             *)
(*                                                                         *)
(* A text is a sequence of characters, a character a one-character string. *)
(* Byte offsets of the code are kept zero-based, as in the code; the       *)
(* character at offset i of a text t is t[i + 1].  An Option is a sequence *)
(* of length 0 (None) or 1 (Some).  A path is the sequence of its          *)
(* characters.  A &str slice of a text knows where it lies in it: a        *)
(* CommandLine and a Token carry span_start, the offset in the file of the *)
(* first character of their text.                                          *)
(***************************************************************************)
EXTENDS Integers, Sequences, FiniteSets, TLC

VARIABLES
    project_root,   \* Semantics.project_root
    files,          \* Semantics.files: a function from the known paths to their text
    ret,            \* the last call on the Semantics and what it returned
    prev,           \* None, or Some of the call that the last call repeated
    tk_text,        \* the text handed to the line segmenter, the tokenizer, the parser
    tk_lines,       \* None, or Some of the logical lines of tk_text with their tokens
    tk_commands,    \* None, or Some of the commands parse made of tk_text
    disk,           \* the storage: a function from the readable paths to their text
    calls           \* the running calls of recursively_set_file_text, outermost first

vars == <<project_root, files, ret, prev, tk_text, tk_lines, tk_commands, disk, calls>>

None == <<>>
Some(x) == <<x>>

\* ------------------------------------------------------------------ iters.rs

\* char::is_whitespace, on the characters the model uses
IsWhitespace(c) == c \in {" ", "\n", "\t", "\r"}

\* a CommandLine as it would be if its span left out the newline that ends it
CommandLine_WithoutNewline(text, from, to, line_number) ==
    [text |-> SubSeq(text, from + 1,
                     IF to > from /\ text[to] = "\n" THEN to - 1 ELSE to),
     span_start |-> from, start_line_in_file |-> line_number]

CommandLine(text, from, to, line_number) ==
    [text |-> SubSeq(text, from + 1, to), span_start |-> from,
     start_line_in_file |-> line_number]

\* the loop of lines() as it would be if a backslash after a backslash did not
\* escape what follows it
RECURSIVE LinesLoop_EscapedBackslash(_, _, _, _, _, _)
LinesLoop_EscapedBackslash(text, index, span_start, line_number, escaped, acc) ==
    IF index >= Len(text)
    THEN IF span_start < Len(text)
         THEN Append(acc, CommandLine(text, span_start, Len(text), line_number))
         ELSE acc
    ELSE LET character == text[index + 1]
             cut == character = "\n" /\ ~escaped
         IN  LinesLoop_EscapedBackslash(text, index + 1,
                       IF cut THEN index + 1 ELSE span_start,
                       IF cut THEN line_number + 1 ELSE line_number,
                       character = "\\" /\ ~escaped,
                       IF cut
                       THEN Append(acc, CommandLine(text, span_start, index + 1, line_number))
                       ELSE acc)

\* the loop of lines(): one iteration per character, then the final span
RECURSIVE LinesLoop(_, _, _, _, _, _)
LinesLoop(text, index, span_start, line_number, escaped, acc) ==
    IF index >= Len(text)
    THEN IF span_start < Len(text)
         THEN Append(acc, CommandLine(text, span_start, Len(text), line_number))
         ELSE acc
    ELSE LET character == text[index + 1]
             cut == character = "\n" /\ ~escaped
         IN  LinesLoop(text, index + 1,
                       IF cut THEN index + 1 ELSE span_start,
                       IF cut THEN line_number + 1 ELSE line_number,
                       character = "\\",
                       IF cut
                       THEN Append(acc, CommandLine(text, span_start, index + 1, line_number))
                       ELSE acc)

lines(text) == LinesLoop(text, 0, 0, 0, FALSE, <<>>)

\* line.text.find(|c| !c.is_whitespace()): the offset of the first such character,
\* Len(text) when there is none
RECURSIVE FirstNonWhitespace(_, _)
FirstNonWhitespace(text, index) ==
    IF index >= Len(text) \/ ~IsWhitespace(text[index + 1])
    THEN index
    ELSE FirstNonWhitespace(text, index + 1)

\* a Token as it would be if its column were counted from the start of the
\* logical line
Token_ColumnInLogicalLine(line, from, to, line_number, line_start_column) ==
    [text |-> SubSeq(line.text, from + 1, to), span_start |-> line.span_start + from,
     location_in_file |-> [line |-> line.start_line_in_file + line_number,
                           column |-> from]]

Token(line, from, to, line_number, line_start_column) ==
    [text |-> SubSeq(line.text, from + 1, to), span_start |-> line.span_start + from,
     location_in_file |-> [line |-> line.start_line_in_file + line_number,
                           column |-> from - line_start_column]]

\* the loop of tokens(): s holds the loop's local variables
RECURSIVE TokensLoop(_, _, _)
TokensLoop(line, index, s) ==
    IF index >= Len(line.text)
    THEN IF ~s.currently_in_whitespace
         THEN Append(s.tokens, Token(line, s.span_start, Len(line.text),
                                     s.line_number, s.line_start_column))
         ELSE s.tokens
    ELSE LET character == line.text[index + 1] IN
         IF character = "\n" /\ s.escaped
         THEN TokensLoop(line, index + 1,
                  [s EXCEPT !.escaped = FALSE,
                            !.currently_in_whitespace = TRUE,
                            !.line_start_column = index + 1,
                            !.line_number = s.line_number + 1])
         ELSE IF IsWhitespace(character)
         THEN TokensLoop(line, index + 1,
                  [s EXCEPT !.tokens = IF ~s.currently_in_whitespace
                                       THEN Append(s.tokens,
                                                Token(line, s.span_start, index,
                                                      s.line_number, s.line_start_column))
                                       ELSE s.tokens,
                            !.currently_in_whitespace = TRUE,
                            !.escaped = FALSE])
         ELSE TokensLoop(line, index + 1,
                  [s EXCEPT !.span_start = IF s.currently_in_whitespace
                                           THEN index ELSE s.span_start,
                            !.currently_in_whitespace = FALSE,
                            !.escaped = (character = "\\")])

tokens(line) ==
    LET first == FirstNonWhitespace(line.text, 0) IN
    IF first >= Len(line.text)
    THEN <<>>
    ELSE TokensLoop(line, first,
             [span_start |-> first, currently_in_whitespace |-> FALSE,
              escaped |-> FALSE, line_start_column |-> 0, line_number |-> 0,
              tokens |-> <<>>])

\* ------------------------------------------------------------------ parse.rs

define == <<"d", "e", "f", "i", "n", "e">>
end == <<"e", "n", "d">>
source == <<"s", "o", "u", "r", "c", "e">>

\* Token::is_at_location
is_at_location(token, location) ==
    /\ location.line = token.location_in_file.line
    /\ location.column >= token.location_in_file.column
    /\ location.column < token.location_in_file.column + Len(token.text)

\* tokens.next() on what is left of a line's tokens
Next1(toks) == IF toks = <<>> THEN None ELSE Some(Head(toks))

\* a Define as it would be if the define keyword were taken for the identifier
Define_KeywordAsIdentifier(define_token, identifier, body, end_token) ==
    [kind |-> "Define", define |-> define_token, identifier |-> Some(define_token),
     body |-> body, end |-> end_token]

Define(define_token, identifier, body, end_token) ==
    [kind |-> "Define", define |-> define_token, identifier |-> identifier,
     body |-> body, end |-> end_token]
Source(source_token, file_path) ==
    [kind |-> "Source", source |-> source_token, file_path |-> file_path]
\* an Other as it would be if keywords were recognised among the arguments and
\* left out of them
Other_ArgsWithoutKeywords(command, args) ==
    [kind |-> "Other", command |-> command,
     args |-> SelectSeq(args, LAMBDA t : t.text \notin {define, end, source})]

Other(command, args) ==
    [kind |-> "Other", command |-> command, args |-> args]

\* Option::unwrap: the value, or a panic
Panicked == [panicked |-> TRUE]
unwrap(option) == IF option = None THEN Panicked ELSE option[1]

\* the arm `Some(Token { text: "end", .. })` as it would be if a line without
\* tokens matched it too
EndArm_OrBlank(first) == first = None \/ first[1].text = end

\* the arm `Some(Token { text: "end", .. })` as it would be if a `source` line
\* matched it too
EndArm_OrSource(first) == first # None /\ first[1].text \in {end, source}

\* the arm `Some(Token { text: "end", .. })` of parse_until's match
EndArm(first) == first # None /\ first[1].text = end

\* parse_until: input is the sequence of logical lines, pos the number of lines the
\* iterator has already handed out; the result also gives the iterator's position
RECURSIVE parse_until(_, _, _, _)
parse_until(input, pos, until_end, commands) ==
    IF pos >= Len(input)
    THEN [commands |-> commands, end_line |-> None, pos |-> pos]
    ELSE LET line == input[pos + 1]
             toks == tokens(line)
             first == Next1(toks)
         IN  IF first # None /\ first[1].text = define
             THEN LET inner == parse_until(input, pos + 1, TRUE, <<>>)
                      end_token == IF inner.end_line = None
                                   THEN None
                                   ELSE Some(unwrap(Next1(tokens(inner.end_line[1]))))
                  IN  parse_until(input, inner.pos, until_end,
                          Append(commands,
                                 Define(toks[1], Next1(Tail(toks)), inner.commands, end_token)))
             ELSE IF EndArm(first)
             THEN IF until_end
                  THEN [commands |-> commands, end_line |-> Some(line), pos |-> pos + 1]
                  ELSE parse_until(input, pos + 1, until_end, commands)
             ELSE IF first # None /\ first[1].text = source
             THEN parse_until(input, pos + 1, until_end,
                      Append(commands, Source(toks[1], Next1(Tail(toks)))))
             ELSE IF first # None
             THEN parse_until(input, pos + 1, until_end,
                      Append(commands, Other(toks[1], Tail(toks))))
             ELSE parse_until(input, pos + 1, until_end, commands)

\* parse as it would be if the top level were parsed until an `end`
parse_UntilEnd(input) == parse_until(lines(input), 0, TRUE, <<>>).commands

parse(input) == parse_until(lines(input), 0, FALSE, <<>>).commands

\* --------------------------------------------------------------- completions.rs

\* take_while over a sequence
RECURSIVE TakeWhileBefore(_, _)
TakeWhileBefore(toks, cursor_position) ==
    IF toks = <<>> THEN <<>>
    ELSE IF Head(toks).location_in_file.column + Len(Head(toks).text) < cursor_position.column
         THEN <<Head(toks)>> \o TakeWhileBefore(Tail(toks), cursor_position)
         ELSE <<>>

\* .find(|line| line.start_line_in_file == line_number): the first such line, as
\* an Option
FindLine(ls, line_number) ==
    LET found == SelectSeq(ls, LAMBDA l : l.start_line_in_file = line_number)
    IN  IF found = <<>> THEN None ELSE Some(Head(found))

\* .find(|token| token.is_at_location(location)): the first such token, as an
\* Option
FindToken(toks, location) ==
    LET found == SelectSeq(toks, LAMBDA t : is_at_location(t, location))
    IN  IF found = <<>> THEN None ELSE Some(Head(found))

TextsOf(toks) == [i \in 1..Len(toks) |-> toks[i].text]

\* CompletionPosition::new: None, or Some of a Command or Arg position
CompletionPosition_new(script, cursor_position) ==
    LET line == FindLine(lines(script), cursor_position.line)
    IN  IF line = None THEN None
        ELSE LET tokens_before_this == TakeWhileBefore(tokens(line[1]), cursor_position)
             IN  IF tokens_before_this = <<>>
                 THEN Some([kind |-> "Command"])
                 ELSE Some([kind |-> "Arg",
                            command |-> Head(tokens_before_this).text,
                            leading_args |-> TextsOf(Tail(tokens_before_this))])

\* --------------------------------------------------------------------- lib.rs

\* Paths are compared as they are written; the paths of the model have no
\* repeated or trailing separator and no `.` component, for which PathBuf's
\* comparison by components would differ.
\* Path::is_relative: a path is absolute when it starts at the root directory
is_relative(path) == path = <<>> \/ path[1] # "/"

\* PathBuf::join of a relative path: a separator is added unless the base is
\* empty or already ends in one
join(base, path) ==
    IF base = <<>> \/ base[Len(base)] = "/"
    THEN base \o path
    ELSE base \o <<"/">> \o path

\* canonicalize_path as it would be without the join: the path as written
canonicalize_path_AsWritten(root, path) == path

\* Semantics::canonicalize_path
canonicalize_path(root, path) ==
    IF is_relative(path) THEN join(root, path) ELSE path

\* the closure of set_file_text's filter_map, on one command: the unresolved
\* paths (none or one) the command contributes
UnresolvedOf(fs, root, command) ==
    IF command.kind = "Source" /\ command.file_path # None
    THEN LET path == command.file_path[1].text
         IN  IF path \in DOMAIN fs
             THEN <<>>
             ELSE <<canonicalize_path(root, path)>>
    ELSE <<>>

\* the filter_map of set_file_text as it would be if it kept only the first
\* mention of a path
RECURSIVE FilterMapUnresolved_FirstSeen(_, _, _)
FilterMapUnresolved_FirstSeen(fs, root, commands) ==
    IF commands = <<>> THEN <<>>
    ELSE LET earlier == FilterMapUnresolved_FirstSeen(fs, root,
                            SubSeq(commands, 1, Len(commands) - 1))
             last == UnresolvedOf(fs, root, commands[Len(commands)])
         IN  IF last # <<>> /\ \E i \in 1..Len(earlier) : earlier[i] = last[1]
             THEN earlier
             ELSE earlier \o last

\* the filter_map(...).collect() of set_file_text, over the parsed commands
RECURSIVE FilterMapUnresolved(_, _, _)
FilterMapUnresolved(fs, root, commands) ==
    IF commands = <<>> THEN <<>>
    ELSE UnresolvedOf(fs, root, Head(commands))
             \o FilterMapUnresolved(fs, root, Tail(commands))

\* set_file_text as it would be if it stored a text only once all the files it
\* sources are known
set_file_text_OnceResolved(fs, root, path, text) ==
    [unresolved_paths |-> FilterMapUnresolved(fs, root, parse(text)),
     files |-> IF FilterMapUnresolved(fs, root, parse(text)) # <<>>
               THEN fs
               ELSE [p \in DOMAIN fs \cup {path} |-> IF p = path THEN text ELSE fs[p]]]

\* set_file_text as it would be if the text of a known file were kept
set_file_text_KeepsKnown(fs, root, path, text) ==
    [unresolved_paths |-> FilterMapUnresolved(fs, root, parse(text)),
     files |-> [p \in DOMAIN fs \cup {path} |-> IF p \in DOMAIN fs THEN fs[p] ELSE text]]

\* Semantics::set_file_text: the returned list and the new file table
set_file_text(fs, root, path, text) ==
    [unresolved_paths |-> FilterMapUnresolved(fs, root, parse(text)),
     files |-> [p \in DOMAIN fs \cup {path} |-> IF p = path THEN text ELSE fs[p]]]

\* what a call gives back: a value, or the process dies of unbounded recursion
Returned(value) == [status |-> "returned", value |-> value]
StackOverflow == [status |-> "stack_overflow", value |-> None]

FilePosition(file, line, column) == [file |-> file, line |-> line, column |-> column]

\* the Define arm as it would be if it gave the position of the define keyword
DefineArm_KeywordPosition(file_path, command, identifier, line_limit) ==
    IF command.identifier[1].text = identifier
    THEN IF line_limit # None /\ command.define.location_in_file.line >= line_limit[1]
         THEN None
         ELSE Some(FilePosition(file_path,
                                command.define.location_in_file.line,
                                command.define.location_in_file.column))
    ELSE None

\* the Define arm of find_definition_in's find_map closure
DefineArm(file_path, command, identifier, line_limit) ==
    IF command.identifier[1].text = identifier
    THEN IF line_limit # None /\ command.define.location_in_file.line >= line_limit[1]
         THEN None
         ELSE Some(FilePosition(file_path,
                                command.identifier[1].location_in_file.line,
                                command.identifier[1].location_in_file.column))
    ELSE None

\* Semantics::find_definition_in.  stack holds the calls that are still running:
\* a call entered again with the arguments of a running one never returns, since
\* nothing it reads changes, and the recursion ends in a stack overflow.
RECURSIVE find_definition_in(_, _, _, _, _, _)
RECURSIVE FindMapRev(_, _, _, _, _, _, _, _)

\* a command sequence with the body of every Define written out after it
RECURSIVE Flattened(_)
Flattened(commands) ==
    IF commands = <<>> THEN <<>>
    ELSE LET c == Head(commands)
         IN  <<c>> \o (IF c.kind = "Define" THEN Flattened(c.body) ELSE <<>>)
                 \o Flattened(Tail(commands))

\* find_definition_in as it would be if it scanned the nested commands too
find_definition_in_Nested(fs, root, script_path, identifier, line_limit, stack) ==
    IF script_path \notin DOMAIN fs THEN Returned(None)
    ELSE IF <<script_path, line_limit>> \in stack THEN StackOverflow
    ELSE LET commands == Flattened(parse(fs[script_path]))
         IN  FindMapRev(fs, root, script_path, commands, Len(commands), identifier,
                        line_limit, stack \cup {<<script_path, line_limit>>})

\* the commands in the order of a scan that looks at all the Defines of a file
\* before any of its Sources: a reverse scan of this sequence meets the Defines
\* first
DefinesLast(commands) ==
    SelectSeq(commands, LAMBDA c : c.kind = "Source")
        \o SelectSeq(commands, LAMBDA c : c.kind # "Source")

\* the reverse scan as it would be if the Sources of a file were looked at only
\* after none of its Defines matched
RECURSIVE FindMapRev_DefinesFirst(_, _, _, _, _, _, _, _)
FindMapRev_DefinesFirst(fs, root, file_path, commands, i, identifier, line_limit, stack) ==
    IF i = Len(commands) /\ commands # DefinesLast(commands)
    THEN FindMapRev_DefinesFirst(fs, root, file_path, DefinesLast(commands), i,
                                 identifier, line_limit, stack)
    ELSE IF i = 0 THEN Returned(None)
    ELSE LET command == commands[i]
             found ==
                 IF command.kind = "Define" /\ command.identifier # None
                 THEN Returned(DefineArm(file_path, command, identifier, line_limit))
                 ELSE IF command.kind = "Source" /\ command.file_path # None
                 THEN find_definition_in(fs, root,
                          canonicalize_path(root, command.file_path[1].text),
                          identifier, None, stack)
                 ELSE Returned(None)
         IN  IF found.status = "stack_overflow" \/ found.value # None
             THEN found
             ELSE FindMapRev_DefinesFirst(fs, root, file_path, commands, i - 1,
                                          identifier, line_limit, stack)

\* the reverse scan as it would be if a Source naming a file that is not in the
\* table ended it
RECURSIVE FindMapRev_UnknownStops(_, _, _, _, _, _, _, _)
FindMapRev_UnknownStops(fs, root, file_path, commands, i, identifier, line_limit, stack) ==
    IF i = 0 THEN Returned(None)
    ELSE LET command == commands[i]
             found ==
                 IF command.kind = "Define" /\ command.identifier # None
                 THEN Returned(DefineArm(file_path, command, identifier, line_limit))
                 ELSE IF command.kind = "Source" /\ command.file_path # None
                 THEN find_definition_in(fs, root,
                          canonicalize_path(root, command.file_path[1].text),
                          identifier, None, stack)
                 ELSE Returned(None)
         IN  IF found.status = "stack_overflow" \/ found.value # None
             THEN found
             ELSE IF /\ command.kind = "Source" /\ command.file_path # None
                     /\ canonicalize_path(root, command.file_path[1].text) \notin DOMAIN fs
             THEN Returned(None)
             ELSE FindMapRev_UnknownStops(fs, root, file_path, commands, i - 1,
                                          identifier, line_limit, stack)

FindMapRev(fs, root, file_path, commands, i, identifier, line_limit, stack) ==
    IF i = 0 THEN Returned(None)
    ELSE LET command == commands[i]
             found ==
                 IF command.kind = "Define" /\ command.identifier # None
                 THEN Returned(DefineArm(file_path, command, identifier, line_limit))
                 ELSE IF command.kind = "Source" /\ command.file_path # None
                 THEN find_definition_in(fs, root,
                          canonicalize_path(root, command.file_path[1].text),
                          identifier, None, stack)
                 ELSE Returned(None)
         IN  IF found.status = "stack_overflow" \/ found.value # None
             THEN found
             ELSE FindMapRev(fs, root, file_path, commands, i - 1,
                             identifier, line_limit, stack)

find_definition_in(fs, root, script_path, identifier, line_limit, stack) ==
    IF script_path \notin DOMAIN fs THEN Returned(None)
    ELSE IF <<script_path, line_limit>> \in stack THEN StackOverflow
    ELSE LET commands == parse(fs[script_path])
         IN  FindMapRev(fs, root, script_path, commands, Len(commands), identifier,
                        line_limit, stack \cup {<<script_path, line_limit>>})

\* Semantics::find_definition
find_definition(fs, root, cursor_position) ==
    IF cursor_position.file \notin DOMAIN fs THEN Returned(None)
    ELSE LET script == fs[cursor_position.file]
             line == FindLine(lines(script), cursor_position.line)
         IN  IF line = None THEN Returned(None)
             ELSE LET token == FindToken(tokens(line[1]), cursor_position)
                  IN  IF token = None THEN Returned(None)
                      ELSE find_definition_in(fs, root, cursor_position.file,
                               token[1].text, Some(cursor_position.line), {})

BuiltIn == << define, <<"i", "f">>, <<"e", "l", "s", "e">>, end >>

Completions(built_in, user_provided) ==
    [built_in |-> built_in, user_provided |-> user_provided]

\* find_completions as it would be if the Arg arm offered the built-ins too
find_completions_BuiltInsInArg(fs, cursor_position) ==
    IF cursor_position.file \notin DOMAIN fs THEN Completions(<<>>, <<>>)
    ELSE IF CompletionPosition_new(fs[cursor_position.file], cursor_position) = None
    THEN Completions(<<>>, <<>>)
    ELSE Completions(BuiltIn, <<>>)

\* Semantics::find_completions
find_completions(fs, cursor_position) ==
    IF cursor_position.file \notin DOMAIN fs THEN Completions(<<>>, <<>>)
    ELSE LET completion_position ==
                 CompletionPosition_new(fs[cursor_position.file], cursor_position)
         IN  IF completion_position = None THEN Completions(<<>>, <<>>)
             ELSE IF completion_position[1].kind = "Command"
             THEN Completions(BuiltIn, <<>>)
             ELSE Completions(<<>>, <<>>)

\* ------------------------------------------------------------ inputs of the model

SP == <<" ">>
NL == <<"\n">>
BS == <<"\\">>
hi == <<"h", "i">>
yo == <<"y", "o">>

RECURSIVE Concat(_)
Concat(seqs) == IF seqs = <<>> THEN <<>> ELSE Head(seqs) \o Concat(Tail(seqs))

\* the project roots: the empty path of the tests, and the directory /r
EmptyRoot == <<>>
RootR == <<"/", "r">>
Roots == {EmptyRoot, RootR}

\* the file names a, b, c, as `source` lines write them
NameA == <<"a">>
NameB == <<"b">>
NameC == <<"c">>
Names == {NameA, NameB, NameC}
Abs(name) == RootR \o <<"/">> \o name

\* "The path must be an absolute path": the paths handed to set_file_text are
\* the files of the project root (with the empty root of the tests, their names)
Paths(root) == {join(root, name) : name \in Names}

DefineHi == Concat(<<define, SP, hi, NL, end, NL>>)
DefineHiWide == Concat(<<SP, define, SP, SP, hi, NL, end, NL>>)
UseHi == hi \o NL
Continued == Concat(<<yo, SP, BS, NL, hi, NL>>)
SourceLine(path) == Concat(<<source, SP, path, NL>>)

\* the texts of the files of the project: a is the file that uses hi
TextsA ==
    { <<>>,
      Concat(<<SourceLine(NameB), UseHi>>),
      Concat(<<SourceLine(NameB), SourceLine(NameC), UseHi>>),
      Concat(<<SourceLine(NameB), SourceLine(Abs(NameB)), SourceLine(NameB), source, NL>>),
      Concat(<<SourceLine(NameA), UseHi, DefineHi>>),
      Concat(<<DefineHi, DefineHiWide, SourceLine(NameB), UseHi>>),
      Concat(<<DefineHiWide, DefineHi, UseHi, SourceLine(NameB)>>),
      Concat(<<DefineHi, DefineHiWide, UseHi, DefineHi>>),
      Concat(<<Continued, DefineHiWide, define, SP, hi, NL, UseHi>>),
      Concat(<<UseHi, DefineHi, SP, UseHi>>),
      Concat(<<define, SP, hi, NL, Continued, yo, SP, NL, SP, UseHi>>) }
TextsB ==
    { DefineHi,
      Concat(<<UseHi, DefineHiWide, DefineHi>>),
      Concat(<<Continued, DefineHi>>),
      Concat(<<DefineHi, SourceLine(NameA)>>),
      Concat(<<SourceLine(NameC), define, SP, yo, NL>>) }
TextsC ==
    { DefineHiWide, UseHi }

TextsFor(name) ==
    IF name = NameA THEN TextsA ELSE IF name = NameB THEN TextsB ELSE TextsC

\* the texts of the one-file checks: up to MaxSnippets of these pieces in a row
Snippets ==
    { Concat(<<define, SP, hi, NL>>),
      Concat(<<SP, define, SP, SP, yo, NL>>),
      Concat(<<end, NL>>),
      UseHi,
      Concat(<<yo, SP, SP, hi, NL>>),
      Concat(<<hi, SP, BS, NL>>),
      Continued,
      hi }

MaxSnippets == 3

RECURSIVE SnippetTexts(_)
SnippetTexts(n) ==
    IF n = 0 THEN {<<>>}
    ELSE LET shorter == SnippetTexts(n - 1)
         IN  shorter \cup {text \o snippet : text \in shorter, snippet \in Snippets}

FileTexts == SnippetTexts(MaxSnippets)

MaxLine == 5
MaxCol == 8

Cursors(paths) ==
    { FilePosition(file, line, column) :
          file \in paths, line \in 0..MaxLine, column \in 0..MaxCol }

\* the texts handed to the tokenizer alone: every text of at most MaxChars characters
Chars == {"a", " ", "\n", "\\"}
MaxChars == 5

CharTexts == UNION {[1..n -> Chars] : n \in 0..MaxChars}

\* the texts handed to the parser alone: up to MaxParseSnippets of these lines in
\* a row
ParseSnippets ==
    { Concat(<<define, SP, hi, NL>>),
      Concat(<<define, NL>>),
      Concat(<<end, NL>>),
      Concat(<<SP, end, SP, hi, NL>>),
      Concat(<<end, BS, NL>>),
      NL,
      Concat(<<SP, SP, NL>>),
      UseHi,
      SourceLine(NameB),
      Concat(<<<<"E", "n", "d">>, SP, define, SP, end, SP, source, NL>>) }

MaxParseSnippets == 4

RECURSIVE ParseSnippetTexts(_)
ParseSnippetTexts(n) ==
    IF n = 0 THEN {<<>>}
    ELSE LET shorter == ParseSnippetTexts(n - 1)
         IN  shorter \cup {text \o snippet : text \in shorter, snippet \in ParseSnippets}

ParseTexts == ParseSnippetTexts(MaxParseSnippets)

\* ------------------------------------------------------------------ the machine
\* Calls on the Semantics are serialized: a call runs to completion and its result,
\* ret, goes back to the caller before the next call is made.

Idle == [op |-> "idle"]

\* Semantics::new
Init ==
    /\ project_root \in Roots
    /\ files = <<>>
    /\ ret = Idle
    /\ prev = None
    /\ tk_text = <<>>
    /\ tk_lines = None
    /\ tk_commands = None
    /\ disk = <<>>
    /\ calls = <<>>

SetFileText(path, text) ==
    /\ ret = Idle
    /\ LET r == set_file_text(files, project_root, path, text) IN
       /\ files' = r.files
       /\ ret' = [op |-> "set_file_text", path |-> path, text |-> text,
                  known |-> DOMAIN files,
                  unresolved_paths |-> r.unresolved_paths]
    /\ UNCHANGED <<project_root, prev, tk_text, tk_lines, tk_commands, disk, calls>>

\* find_definition as it would be if the lookup of the file made an entry for a
\* file that has none
FindDefinition_Inserting(cursor_position) ==
    /\ ret = Idle
    /\ ret' = [op |-> "find_definition", cursor_position |-> cursor_position,
               result |-> find_definition(files, project_root, cursor_position)]
    /\ files' = [p \in DOMAIN files \cup {cursor_position.file} |->
                    IF p \in DOMAIN files THEN files[p] ELSE <<>>]
    /\ UNCHANGED <<project_root, prev, tk_text, tk_lines, tk_commands, disk, calls>>

FindDefinition(cursor_position) ==
    /\ ret = Idle
    /\ ret' = [op |-> "find_definition", cursor_position |-> cursor_position,
               result |-> find_definition(files, project_root, cursor_position)]
    /\ UNCHANGED <<project_root, files, prev, tk_text, tk_lines, tk_commands, disk, calls>>

FindCompletions(cursor_position) ==
    /\ ret = Idle
    /\ ret' = [op |-> "find_completions", cursor_position |-> cursor_position,
               result |-> find_completions(files, cursor_position)]
    /\ UNCHANGED <<project_root, files, prev, tk_text, tk_lines, tk_commands, disk, calls>>

\* the caller takes the result; a process that overflowed its stack is gone
Return ==
    /\ ret # Idle
    /\ ret.op \in {"find_definition", "did_open"} => ret.result.status = "returned"
    /\ ret' = Idle
    /\ prev' = None
    /\ UNCHANGED <<project_root, files, tk_text, tk_lines, tk_commands, disk, calls>>

\* the caller makes the query it has just made once more, with no call between
\* the two
Again ==
    /\ prev = None
    /\ \/ /\ ret.op = "find_definition"
          /\ ret.result.status = "returned"
          /\ ret' = [ret EXCEPT !.result =
                         find_definition(files, project_root, ret.cursor_position)]
       \/ /\ ret.op = "find_completions"
          /\ ret' = [ret EXCEPT !.result = find_completions(files, ret.cursor_position)]
    /\ prev' = Some(ret)
    /\ UNCHANGED <<project_root, files, tk_text, tk_lines, tk_commands, disk, calls>>

\* the line segmenter and the tokenizer on tk_text, as check_lines_and_tokens runs
\* them: tk_lines becomes Some of the logical lines, each with its tokens
LinesAndTokens ==
    /\ tk_lines = None
    /\ tk_lines' = LET ls == lines(tk_text)
                   IN  Some([i \in 1..Len(ls) |->
                                 [line |-> ls[i], tokens |-> tokens(ls[i])]])
    /\ UNCHANGED <<project_root, files, ret, prev, tk_text, tk_commands, disk, calls>>

\* a project of three files
Next ==
    \/ \E name \in Names : \E text \in TextsFor(name) :
           SetFileText(join(project_root, name), text)
    \/ \E cursor_position \in Cursors(Paths(project_root)) :
           FindDefinition(cursor_position)
    \/ \E cursor_position \in Cursors(Paths(project_root)) :
           FindCompletions(cursor_position)
    \/ Return
    \/ Again

Spec == Init /\ [][Next]_vars

\* one file, opened once with any of the snippet texts and then queried
NextFile ==
    \/ /\ files = <<>>
       /\ \E text \in FileTexts : SetFileText(join(project_root, NameA), text)
    \/ \E cursor_position \in Cursors({join(project_root, NameA)}) :
           FindDefinition(cursor_position)
    \/ \E cursor_position \in Cursors({join(project_root, NameA)}) :
           FindCompletions(cursor_position)
    \/ Return

InitFile ==
    /\ project_root = EmptyRoot
    /\ files = <<>>
    /\ ret = Idle
    /\ prev = None
    /\ tk_text = <<>>
    /\ tk_lines = None
    /\ tk_commands = None
    /\ disk = <<>>
    /\ calls = <<>>

SpecFile == InitFile /\ [][NextFile]_vars

\* the tokenizer alone, on every text of CharTexts
InitTokens ==
    /\ project_root = EmptyRoot
    /\ files = <<>>
    /\ ret = Idle
    /\ prev = None
    /\ tk_text \in CharTexts
    /\ tk_lines = None
    /\ tk_commands = None
    /\ disk = <<>>
    /\ calls = <<>>

NextTokens == LinesAndTokens

SpecTokens == InitTokens /\ [][NextTokens]_vars

\* the parser on tk_text, as check_lex_and_parse runs it
Parse ==
    /\ tk_commands = None
    /\ tk_commands' = Some(parse(tk_text))
    /\ UNCHANGED <<project_root, files, ret, prev, tk_text, tk_lines, disk, calls>>

\* the parser alone, on every text of ParseTexts
InitParse ==
    /\ project_root = EmptyRoot
    /\ files = <<>>
    /\ ret = Idle
    /\ prev = None
    /\ tk_text \in ParseTexts
    /\ tk_lines = None
    /\ tk_commands = None
    /\ disk = <<>>
    /\ calls = <<>>

NextParse == Parse

SpecParse == InitParse /\ [][NextParse]_vars

\* ------------------------------------------------------- the server's load
\* main_loop hands the text of an opened or changed document to
\* recursively_set_file_text, which runs to its end before the next message is
\* taken.  A call is a frame of calls: the path and text it was made with, the
\* file table it found, and the unresolved paths its loop has still to visit.

Running == [status |-> "running", value |-> None]

\* the texts of the files a, b, c, in the editor and on the disk
LoadTexts(name) ==
    IF name = NameA
    THEN { Concat(<<SourceLine(NameB), UseHi>>),
           Concat(<<SourceLine(NameA), UseHi>>) }
    ELSE IF name = NameB
    THEN { DefineHi,
           SourceLine(NameA),
           Concat(<<SourceLine(NameC), SourceLine(NameC)>>),
           Concat(<<SourceLine(Abs(NameC)), define, SP, yo, NL, SourceLine(NameA), end, NL>>) }
    ELSE { DefineHi, UseHi }

\* the storages: some of the files of the project, each with one of its texts
Disks(root) ==
    UNION { {d \in [{join(root, name) : name \in S}
                        -> UNION {LoadTexts(name) : name \in Names}] :
                 \A name \in S : d[join(root, name)] \in LoadTexts(name)}
            : S \in SUBSET Names }

\* a call with the arguments of a running call, made on the file table that call
\* found: what ran from there to here runs again, and the recursion never ends
Recurs(path, text) ==
    \E i \in 1..Len(calls) :
        calls[i].path = path /\ calls[i].text = text /\ calls[i].known = files

\* the first statement of recursively_set_file_text, made with path and text
Frame(path, text) ==
    [path |-> path, text |-> text, known |-> files,
     unresolved_paths |-> set_file_text(files, project_root, path, text).unresolved_paths]

\* DidOpenTextDocument, DidChangeTextDocument: the outermost call
DidOpen(path, text) ==
    /\ ret = Idle
    /\ calls = <<>>
    /\ files' = set_file_text(files, project_root, path, text).files
    /\ calls' = <<Frame(path, text)>>
    /\ ret' = [op |-> "did_open", path |-> path, text |-> text,
               known |-> DOMAIN files, result |-> Running]
    /\ UNCHANGED <<project_root, prev, tk_text, tk_lines, tk_commands, disk>>

\* the loop of a call as it would be if a file read from the disk were stored
\* without a look at what it sources
ReadAndRecurse_OneLevel ==
    /\ calls # <<>>
    /\ ret.result.status = "running"
    /\ LET top == calls[Len(calls)] IN
       /\ top.unresolved_paths # <<>>
       /\ Head(top.unresolved_paths) \in DOMAIN disk
       /\ LET path == Head(top.unresolved_paths)
              text == disk[path]
              rest == [calls EXCEPT ![Len(calls)].unresolved_paths = Tail(@)]
          IN  /\ files' = set_file_text(files, project_root, path, text).files
              /\ calls' = Append(rest, [Frame(path, text) EXCEPT !.unresolved_paths = <<>>])
              /\ ret' = ret
    /\ UNCHANGED <<project_root, prev, tk_text, tk_lines, tk_commands, disk>>

\* the loop of a call takes its next path, reads it and calls
\* recursively_set_file_text with what it read
ReadAndRecurse ==
    /\ calls # <<>>
    /\ ret.result.status = "running"
    /\ LET top == calls[Len(calls)] IN
       /\ top.unresolved_paths # <<>>
       /\ Head(top.unresolved_paths) \in DOMAIN disk
       /\ LET path == Head(top.unresolved_paths)
              text == disk[path]
              rest == [calls EXCEPT ![Len(calls)].unresolved_paths = Tail(@)]
          IN  IF Recurs(path, text)
              THEN /\ ret' = [ret EXCEPT !.result = StackOverflow]
                   /\ UNCHANGED <<files, calls>>
              ELSE /\ files' = set_file_text(files, project_root, path, text).files
                   /\ calls' = Append(rest, Frame(path, text))
                   /\ ret' = ret
    /\ UNCHANGED <<project_root, prev, tk_text, tk_lines, tk_commands, disk>>

\* the loop of a call takes its next path and cannot read it
SkipUnreadable ==
    /\ calls # <<>>
    /\ ret.result.status = "running"
    /\ LET top == calls[Len(calls)] IN
       /\ top.unresolved_paths # <<>>
       /\ Head(top.unresolved_paths) \notin DOMAIN disk
       /\ calls' = [calls EXCEPT ![Len(calls)].unresolved_paths = Tail(@)]
    /\ UNCHANGED <<project_root, files, ret, prev, tk_text, tk_lines, tk_commands, disk>>

\* the loop of a call is through and the call returns; the outermost call
\* returns to main_loop
ReturnFromCall ==
    /\ calls # <<>>
    /\ ret.result.status = "running"
    /\ calls[Len(calls)].unresolved_paths = <<>>
    /\ calls' = SubSeq(calls, 1, Len(calls) - 1)
    /\ ret' = IF Len(calls) = 1 THEN [ret EXCEPT !.result = Returned(None)] ELSE ret
    /\ UNCHANGED <<project_root, files, prev, tk_text, tk_lines, tk_commands, disk>>

\* the server: documents of the project are opened and changed, one after the
\* other, over a storage that holds some of the project's files
InitLoad ==
    /\ project_root \in Roots
    /\ files = <<>>
    /\ ret = Idle
    /\ prev = None
    /\ tk_text = <<>>
    /\ tk_lines = None
    /\ tk_commands = None
    /\ disk \in Disks(project_root)
    /\ calls = <<>>

NextLoad ==
    \/ \E name \in Names : \E text \in LoadTexts(name) :
           DidOpen(join(project_root, name), text)
    \/ ReadAndRecurse
    \/ SkipUnreadable
    \/ ReturnFromCall
    \/ Return

SpecLoad == InitLoad /\ [][NextLoad]_vars

\* the Semantics alone, given the texts of the load in any sequence and queried
NextTable ==
    \/ \E name \in Names : \E text \in LoadTexts(name) :
           SetFileText(join(project_root, name), text)
    \/ \E cursor_position \in Cursors(Paths(project_root)) :
           FindDefinition(cursor_position)
    \/ \E cursor_position \in Cursors(Paths(project_root)) :
           FindCompletions(cursor_position)
    \/ Return

SpecTable == Init /\ [][NextTable]_vars

\* ------------------------------------------------------------------ the claims

Range(seq) == {seq[i] : i \in 1..Len(seq)}

\* where the character at an offset of a text stands in the file: the number of
\* newlines before it, and its distance from the character after the last of them
RECURSIVE Location(_, _)
Location(text, offset) ==
    IF offset = 0 THEN [line |-> 0, column |-> 0]
    ELSE LET before == Location(text, offset - 1)
         IN  IF text[offset] = "\n"
             THEN [line |-> before.line + 1, column |-> 0]
             ELSE [line |-> before.line, column |-> before.column + 1]

\* the token lists of the logical lines of a text
TokenLines(text) == LET ls == lines(text) IN [i \in 1..Len(ls) |-> tokens(ls[i])]

\* the logical lines of text that read `define name ...`, as token lists
DefineLines(text, name) ==
    {toks \in Range(TokenLines(text)) :
        Len(toks) >= 2 /\ toks[1].text = define /\ toks[2].text = name}

\* the top-level Define commands of text that define name
TopLevelDefines(text, name) ==
    {c \in Range(parse(text)) :
        c.kind = "Define" /\ c.identifier # None /\ c.identifier[1].text = name}

\* the logical lines of text that read `source ...`, as token lists
SourceLines(text) ==
    {toks \in Range(TokenLines(text)) : Len(toks) >= 1 /\ toks[1].text = source}

\* the tokens of a file that stand under the cursor, on the physical line on
\* which their logical line starts
UsesAt(fs, cursor_position) ==
    IF cursor_position.file \notin DOMAIN fs THEN {}
    ELSE LET text == fs[cursor_position.file]
             ls == lines(text)
         IN  UNION { {t \in Range(tokens(ls[i])) :
                        /\ Location(text, ls[i].span_start).line = cursor_position.line
                        /\ Location(text, t.span_start).line = cursor_position.line
                        /\ Location(text, t.span_start).column <= cursor_position.column
                        /\ cursor_position.column
                               < Location(text, t.span_start).column + Len(t.text)}
                   : i \in 1..Len(ls) }

\* the position in file of a token of its text
PositionOf(fs, file, token) ==
    FilePosition(file, Location(fs[file], token.span_start).line,
                 Location(fs[file], token.span_start).column)

Asked == ret.op = "find_definition"
Cursor == ret.cursor_position

\* C8: every token carries its absolute position in the file: its line is the
\* number of newlines before its first character, its column the offset of that
\* character in its physical line, also in a logical line after a continued one.
C8_TokensCarryFilePosition ==
    tk_lines # None =>
        \A i \in 1..Len(tk_lines[1]) :
            \A t \in Range(tk_lines[1][i].tokens) :
                t.location_in_file = Location(tk_text, t.span_start)

\* C1's case: the cursor is on a use of a name that the file defines once, at top
\* level, on an earlier line, and the file has no source line
C1_Case(t) ==
    LET text == files[Cursor.file] IN
    /\ SourceLines(text) = {}
    /\ Cardinality(DefineLines(text, t.text)) = 1
    /\ Cardinality(TopLevelDefines(text, t.text)) = 1
    /\ \A c \in TopLevelDefines(text, t.text) :
           PositionOf(files, Cursor.file, c.define).line < Cursor.line

\* C1: find_definition at a use of NAME below the one top-level `define NAME` of a
\* file without source lines returns the queried file and the line and column of the
\* identifier token of the define line (its second token), not of the keyword.
C1_DefinitionOfLaterUse ==
    Asked =>
        \A t \in UsesAt(files, Cursor) :
            C1_Case(t) =>
                \A toks \in DefineLines(files[Cursor.file], t.text) :
                    ret.result = Returned(Some(PositionOf(files, Cursor.file, toks[2])))

\* C2: no forward references: when no other file defines NAME and every
\* `define NAME` of the queried file has its keyword on the line of the use or
\* below it, find_definition at the use returns nothing, also with the cursor on
\* the identifier of the define line and also when the file sources itself.
C2_NoForwardReference ==
    Asked =>
        \A t \in UsesAt(files, Cursor) :
            ( /\ \A f \in DOMAIN files \ {Cursor.file} : DefineLines(files[f], t.text) = {}
              /\ \A toks \in DefineLines(files[Cursor.file], t.text) :
                     PositionOf(files, Cursor.file, toks[1]).line >= Cursor.line )
            => ret.result = Returned(None)

\* the Define of a set of top-level Defines of a file whose keyword is on the
\* greatest line
LastDefine(fs, file, defines) ==
    CHOOSE c \in defines :
        \A other \in defines :
            PositionOf(fs, file, other.define).line <= PositionOf(fs, file, c.define).line

\* C3: most recent definition wins: with several top-level `define NAME` blocks,
\* all on lines before the use, find_definition at the use returns the identifier
\* position of the one on the greatest line.
C3_MostRecentDefinitionWins ==
    Asked =>
        \A t \in UsesAt(files, Cursor) :
            LET tops == TopLevelDefines(files[Cursor.file], t.text) IN
            ( /\ Cardinality(tops) >= 2
              /\ \A c \in tops : PositionOf(files, Cursor.file, c.define).line < Cursor.line )
            => ret.result =
                   Returned(Some(PositionOf(files, Cursor.file,
                                     LastDefine(files, Cursor.file, tops).identifier[1])))

\* the canonicalized form of a path as the claims state it: the project root joined
\* with a relative path, an absolute path unchanged
CanonicalForm(root, path) ==
    IF path # <<>> /\ path[1] = "/" THEN path
    ELSE IF root = <<>> THEN path
    ELSE Concat(<<root, <<"/">>, path>>)

\* the top-level `source X` commands of a text that have a path token
SourcesOf(text) ==
    SelectSeq(parse(text), LAMBDA c : c.kind = "Source" /\ c.file_path # None)

\* C4: cross-file resolution: when file A has `source B` on a line before a use of
\* NAME and no define of NAME, and the canonicalized B is in the table with a
\* `define NAME` block, find_definition at the use returns an identifier position
\* of a `define NAME` inside B, under B's key, whatever the line of the define.
C4_ResolvesIntoSourcedFile ==
    Asked =>
        \A t \in UsesAt(files, Cursor) :
            \A c \in Range(SourcesOf(files[Cursor.file])) :
                LET B == CanonicalForm(project_root, c.file_path[1].text) IN
                ( /\ DefineLines(files[Cursor.file], t.text) = {}
                  /\ PositionOf(files, Cursor.file, c.source).line < Cursor.line
                  /\ B \in DOMAIN files
                  /\ TopLevelDefines(files[B], t.text) # {} )
                => /\ ret.result.status = "returned"
                   /\ \E d \in TopLevelDefines(files[B], t.text) :
                          ret.result.value = Some(PositionOf(files, B, d.identifier[1]))

\* C5: set_file_text never returns a path that was a key of the file table when it
\* was called.
C5_NeverReturnsKnownPath ==
    ret.op = "set_file_text" =>
        \A p \in Range(ret.unresolved_paths) : p \notin ret.known

\* C6: for every top-level `source X` with a path token whose canonicalized form is
\* not a key of the table, the returned list contains that form: the project root
\* joined with a relative X, an absolute X unchanged; and the list holds nothing
\* else, so a `source` without a path token contributes nothing.
C6_ReturnsCanonicalUnknownTargets ==
    ret.op = "set_file_text" =>
        LET targets == {CanonicalForm(project_root, c.file_path[1].text) :
                            c \in Range(SourcesOf(ret.text))}
        IN  /\ \A p \in targets : p \notin ret.known => p \in Range(ret.unresolved_paths)
            /\ Range(ret.unresolved_paths) \subseteq targets

\* C6's case: under the root /r a text with a relative and an absolute source line
\* and one without a path, all unknown, has been set
C6_Witness ==
    /\ ret.op = "set_file_text"
    /\ project_root = RootR
    /\ Abs(NameB) \in Range(ret.unresolved_paths)
    /\ \E c \in Range(SourcesOf(ret.text)) : c.file_path[1].text = NameB
    /\ \E c \in Range(SourcesOf(ret.text)) : c.file_path[1].text = Abs(NameB)
    /\ \E c \in Range(parse(ret.text)) : c.kind = "Source" /\ c.file_path = None

\* C7 as stated: the returned list names no path twice.
C7_NoPathTwice ==
    ret.op = "set_file_text" =>
        \A i, j \in 1..Len(ret.unresolved_paths) :
            i # j => ret.unresolved_paths[i] # ret.unresolved_paths[j]

\* the source lines of a set_file_text call that pass its filter: their path, as
\* written, was not a key
PassingSources(call) ==
    SelectSeq(SourcesOf(call.text), LAMBDA c : c.file_path[1].text \notin call.known)

\* C7, amended: the returned list is in source order and has one entry for every
\* top-level `source` line with a path that was not, as written, a key of the
\* table: a file that several such lines name is listed once for each of them.
C7_SourceOrderWithRepeats ==
    ret.op = "set_file_text" =>
        ret.unresolved_paths =
            [i \in 1..Len(PassingSources(ret)) |->
                 CanonicalForm(project_root, PassingSources(ret)[i].file_path[1].text)]

\* C7's case: a text whose source lines name an unknown file twice and another
\* unknown file after it has been set
C7_Witness ==
    /\ ret.op = "set_file_text"
    /\ \E i, j, k \in 1..Len(ret.unresolved_paths) :
           /\ i < j /\ j < k
           /\ ret.unresolved_paths[i] = ret.unresolved_paths[k]
           /\ ret.unresolved_paths[i] # ret.unresolved_paths[j]

FourBuiltIns ==
    << <<"d", "e", "f", "i", "n", "e">>, <<"i", "f">>, <<"e", "l", "s", "e">>,
       <<"e", "n", "d">> >>

Completing == ret.op = "find_completions"

\* C9: for a file whose text is empty the completion context at line 0, column 0 is
\* Command, and find_completions there returns define, if, else, end, in that
\* order, and no user-provided completion.
C9_EmptyScriptCompletions ==
    ( /\ Completing
      /\ Cursor.file \in DOMAIN files
      /\ Cursor.line = 0 /\ Cursor.column = 0 )
    => ( files[Cursor.file] = <<>> =>
           /\ CompletionPosition_new(files[Cursor.file], Cursor) = Some([kind |-> "Command"])
           /\ ret.result = [built_in |-> FourBuiltIns, user_provided |-> <<>>] )

\* C10: find_completions is determined by the completion context alone: in a
\* Command context it returns define, if, else, end, in that order, in an Arg
\* context nothing, and never a user-provided completion.
C10_CompletionsFollowContext ==
    Completing =>
        /\ ret.result.user_provided = <<>>
        /\ Cursor.file \in DOMAIN files =>
               LET context == CompletionPosition_new(files[Cursor.file], Cursor) IN
               /\ (context # None /\ context[1].kind = "Command")
                      => ret.result.built_in = FourBuiltIns
               /\ (context # None /\ context[1].kind = "Arg")
                      => ret.result.built_in = <<>>

\* C10's case: completions were asked for in an Arg context after two tokens
C10_Witness ==
    /\ Completing
    /\ Cursor.file \in DOMAIN files
    /\ LET context == CompletionPosition_new(files[Cursor.file], Cursor) IN
       /\ context # None
       /\ context[1].kind = "Arg"
       /\ context[1].leading_args # <<>>

Queries == {"find_definition", "find_completions"}

\* C11: find_definition and find_completions have no hidden mutation: a call of
\* either leaves the file table and project_root as they were, and a call made
\* again in the same state at the same position returns what the first returned.
C11_QueriesLeaveStateAndRepeat ==
    [][ (ret'.op \in Queries /\ (ret = Idle \/ prev' = Some(ret)))
            => /\ files' = files
               /\ project_root' = project_root
               /\ prev' # None => ret'.result = prev'[1].result ]_vars

\* C11's case: a find_definition that found a definition has been made again
C11_Witness ==
    /\ prev # None
    /\ ret.op = "find_definition"
    /\ ret.result.value # None
    /\ prev[1].cursor_position = ret.cursor_position

\* the tokens of a file that stand under the cursor, on whatever physical line
TokensAt(fs, cursor_position) ==
    IF cursor_position.file \notin DOMAIN fs THEN {}
    ELSE LET text == fs[cursor_position.file]
         IN  {t \in UNION {Range(toks) : toks \in Range(TokenLines(text))} :
                 /\ Location(text, t.span_start).line = cursor_position.line
                 /\ Location(text, t.span_start).column <= cursor_position.column
                 /\ cursor_position.column
                        < Location(text, t.span_start).column + Len(t.text)}

\* the physical lines of a text on which a logical line starts
StartLines(text) ==
    {Location(text, l.span_start).line : l \in Range(lines(text))}

NoCompletions == [built_in |-> <<>>, user_provided |-> <<>>]

\* C12: queries never signal an error: find_definition on a file that is not in
\* the table, on a line beyond the end of the text or on a column with no token
\* returns nothing, and find_completions on a file that is not in the table or on
\* a line on which no logical line starts returns no completion at all.
C12_QueriesReturnNothingFound ==
    /\ ( /\ Asked
         /\ \/ Cursor.file \notin DOMAIN files
            \/ Cursor.line > Location(files[Cursor.file], Len(files[Cursor.file])).line
            \/ TokensAt(files, Cursor) = {} )
       => ret.result = Returned(None)
    /\ ( /\ Completing
         /\ \/ Cursor.file \notin DOMAIN files
            \/ Cursor.line \notin StartLines(files[Cursor.file]) )
       => ret.result = NoCompletions

\* a command sequence is a tree that parse can return: no token of it is a
\* panic, and the end of every Define, when there is one, is the token `end`
RECURSIVE Parsed(_)
Parsed(commands) ==
    \A i \in 1..Len(commands) :
        LET c == commands[i] IN
        \/ /\ c.kind = "Define"
           /\ c.define.text = define
           /\ c.identifier # None => c.identifier[1] # Panicked
           /\ c.end # None => (c.end[1] # Panicked /\ c.end[1].text = end)
           /\ Parsed(c.body)
        \/ c.kind = "Source" /\ c.source.text = source
        \/ c.kind = "Other" /\ c.command.text \notin {define, end, source}

\* C13: parsing never fails: parse returns a command sequence for every text, also
\* for a define without identifier or without end, a stray end and blank lines,
\* and the unwrap that takes the `end` token of a terminating line never fails.
C13_ParseNeverFails ==
    tk_commands # None => Parsed(tk_commands[1])

\* C13's case: a text of four lines that starts with a stray `end` and has a
\* blank line has been parsed into one Define without identifier and without end
C13_Witness ==
    /\ tk_commands # None
    /\ Len(lines(tk_text)) = 4
    /\ tokens(lines(tk_text)[1]) # <<>>
    /\ tokens(lines(tk_text)[1])[1].text = end
    /\ \E i \in 2..4 : tokens(lines(tk_text)[i]) = <<>>
    /\ Len(tk_commands[1]) = 1
    /\ tk_commands[1][1].kind = "Define"
    /\ tk_commands[1][1].identifier = None
    /\ tk_commands[1][1].end = None

\* C14: find_definition runs to completion, it returns a value, for every file
\* table and every position, also when the source commands form a cycle none of
\* whose files defines the identifier.
C14_RunsToCompletion ==
    Asked => ret.result.status = "returned"

\* C15: set_file_text always stores: after the call the table maps the path to
\* exactly the text, also when unresolved paths are returned, every other entry
\* and project_root are as before, and no step ever removes a key of the table.
C15_SetFileTextStores ==
    [][ /\ (ret = Idle /\ ret'.op = "set_file_text")
            => /\ files' = [p \in DOMAIN files \cup {ret'.path} |->
                               IF p = ret'.path THEN ret'.text ELSE files[p]]
               /\ project_root' = project_root
        /\ DOMAIN files \subseteq DOMAIN files' ]_vars

\* C15's case: the text of a file already in a table of three files has been set
\* by a call that returned unresolved paths
C15_Witness ==
    /\ ret.op = "set_file_text"
    /\ ret.path \in ret.known
    /\ ret.unresolved_paths # <<>>
    /\ files[ret.path] = ret.text
    /\ Cardinality(DOMAIN files) = 3

\* the token find_definition resolves at a position, as an Option: the token
\* that the tokenizer recorded there
ResolvedToken(fs, cursor_position) ==
    IF cursor_position.file \notin DOMAIN fs THEN None
    ELSE LET line == FindLine(lines(fs[cursor_position.file]), cursor_position.line)
         IN  IF line = None THEN None
             ELSE FindToken(tokens(line[1]), cursor_position)

\* the places in a command sequence of the Defines of name whose keyword is
\* recorded on a line before line
DefinesBefore(commands, name, line) ==
    {i \in 1..Len(commands) :
        /\ commands[i].kind = "Define"
        /\ commands[i].identifier # None
        /\ commands[i].identifier[1].text = name
        /\ commands[i].define.location_in_file.line < line}

\* the places in a command sequence of the Sources that have a path
SourcePlaces(commands) ==
    {i \in 1..Len(commands) : commands[i].kind = "Source" /\ commands[i].file_path # None}

Max(S) == CHOOSE x \in S : \A y \in S : y <= x

\* the recorded position of the identifier of a Define command of a file
IdentifierOf(file, command) ==
    FilePosition(file, command.identifier[1].location_in_file.line,
                 command.identifier[1].location_in_file.column)

\* the recorded identifier position of the last top-level Define of name in a file
LastDefineIn(fs, file, name) ==
    LET commands == parse(fs[file])
        places == {i \in 1..Len(commands) :
                      /\ commands[i].kind = "Define"
                      /\ commands[i].identifier # None
                      /\ commands[i].identifier[1].text = name}
    IN  IdentifierOf(file, commands[Max(places)])

\* a file of the table that defines name at top level and sources nothing
DefinesAlone(fs, file, name) ==
    /\ file \in DOMAIN fs
    /\ SourcesOf(fs[file]) = <<>>
    /\ TopLevelDefines(fs[file], name) # {}

RECURSIVE NestedDefinesBefore(_, _, _)
NestedDefinesBefore(commands, name, line) ==
    UNION { IF commands[i].kind # "Define" THEN {}
            ELSE {commands[i].body[j] : j \in DefinesBefore(commands[i].body, name, line)}
                     \cup NestedDefinesBefore(commands[i].body, name, line)
          : i \in 1..Len(commands) }

\* C17 as stated: a `define NAME` written inside the body of another define, on a
\* line before the use, is found by find_definition at the use.
C17_NestedDefineFound ==
    (Asked /\ ResolvedToken(files, Cursor) # None) =>
        ( NestedDefinesBefore(parse(files[Cursor.file]),
                              ResolvedToken(files, Cursor)[1].text, Cursor.line) # {}
          => ret.result.status = "returned" /\ ret.result.value # None )

\* C17, amended: the search scans the top-level commands only.  In a file without
\* source lines find_definition returns the identifier position of the last
\* top-level `define NAME` recorded before the cursor line, and nothing when
\* there is none, also when a `define NAME` stands before the use inside the body
\* of another define.
C17_OnlyTopLevelDefines ==
    (Asked /\ ResolvedToken(files, Cursor) # None) =>
        LET name == ResolvedToken(files, Cursor)[1].text
            commands == parse(files[Cursor.file])
            defines == DefinesBefore(commands, name, Cursor.line)
        IN  SourcePlaces(commands) = {} =>
                ret.result = IF defines = {}
                             THEN Returned(None)
                             ELSE Returned(Some(IdentifierOf(Cursor.file,
                                                             commands[Max(defines)])))

\* C17's case: the cursor is on a use of a name that only a nested define, on an
\* earlier line, defines, and nothing was returned
C17_Witness ==
    /\ Asked
    /\ ResolvedToken(files, Cursor) # None
    /\ LET name == ResolvedToken(files, Cursor)[1].text
           commands == parse(files[Cursor.file])
       IN  /\ NestedDefinesBefore(commands, name, Cursor.line) # {}
           /\ DefinesBefore(commands, name, Cursor.line) = {}
           /\ SourcePlaces(commands) = {}
    /\ ret.result = Returned(None)

\* the true positions of the identifiers of the top-level Defines of name in a file
DefinitionsIn(fs, file, name) ==
    {PositionOf(fs, file, c.identifier[1]) : c \in TopLevelDefines(fs[file], name)}

\* the true position of the identifier of the last top-level Define of name in a
\* file
LastDefinitionIn(fs, file, name) ==
    LET commands == parse(fs[file])
        places == {i \in 1..Len(commands) :
                      /\ commands[i].kind = "Define"
                      /\ commands[i].identifier # None
                      /\ commands[i].identifier[1].text = name}
    IN  PositionOf(fs, file, commands[Max(places)].identifier[1])

\* the files that the source lines of a text name, in source order
TargetsOf(root, text) ==
    [i \in 1..Len(SourcesOf(text)) |->
         CanonicalForm(root, SourcesOf(text)[i].file_path[1].text)]

\* C18: when the queried file has no define of NAME and source lines of which
\* some name a file that defines NAME, find_definition at a use of NAME returns a
\* definition of NAME; when the sourced files source nothing themselves, it is the
\* last `define NAME` of the file of the last source line whose file defines
\* NAME, whatever its line.
C18_LastDefiningSourceWins ==
    Asked =>
        \A t \in UsesAt(files, Cursor) :
            LET targets == TargetsOf(project_root, files[Cursor.file])
                defining == {i \in 1..Len(targets) :
                                /\ targets[i] \in DOMAIN files
                                /\ TopLevelDefines(files[targets[i]], t.text) # {}}
            IN  (DefineLines(files[Cursor.file], t.text) = {} /\ defining # {})
                => /\ ret.result.status = "returned"
                   /\ ret.result.value # None
                   /\ \E f \in DOMAIN files :
                          ret.result.value[1] \in DefinitionsIn(files, f, t.text)
                   /\ (\A i \in 1..Len(targets) :
                           targets[i] \in DOMAIN files
                               => SourcesOf(files[targets[i]]) = <<>>)
                      => ret.result.value[1]
                             = LastDefinitionIn(files, targets[Max(defining)], t.text)

\* the file a Source command of a command sequence names
TargetAt(root, commands, place) ==
    canonicalize_path(root, commands[place].file_path[1].text)

\* C19: during find_definition a `source` line whose canonicalized path is not a
\* key of the table contributes nothing and does not stop the search.  When no
\* sourced file is loaded the answer is that of the defines of the queried file
\* alone; when a source line of a loaded file that defines NAME and sources
\* nothing stands before source lines of files not loaded, with no define of NAME
\* before the cursor line after it, the definition of that file is returned.
C19_UnknownSourceSkipped ==
    (Asked /\ ResolvedToken(files, Cursor) # None) =>
        LET name == ResolvedToken(files, Cursor)[1].text
            commands == parse(files[Cursor.file])
            defines == DefinesBefore(commands, name, Cursor.line)
            sources == SourcePlaces(commands)
            known == {s \in sources : TargetAt(project_root, commands, s) \in DOMAIN files}
        IN  /\ known = {} =>
                   ret.result = IF defines = {}
                                THEN Returned(None)
                                ELSE Returned(Some(IdentifierOf(Cursor.file,
                                                                commands[Max(defines)])))
            /\ ( /\ known # {}
                 /\ \A d \in defines : d < Max(known)
                 /\ TargetAt(project_root, commands, Max(known)) # Cursor.file
                 /\ DefinesAlone(files, TargetAt(project_root, commands, Max(known)), name) )
               => ret.result =
                      Returned(Some(LastDefineIn(files,
                                        TargetAt(project_root, commands, Max(known)), name)))

\* C19's case: the last source line of the queried file names a file that is not
\* loaded, and a definition that an earlier command yields has been returned
C19_Witness ==
    /\ Asked
    /\ ResolvedToken(files, Cursor) # None
    /\ LET commands == parse(files[Cursor.file])
           sources == SourcePlaces(commands)
       IN  /\ sources # {}
           /\ TargetAt(project_root, commands, Max(sources)) \notin DOMAIN files
           /\ \E s \in sources : TargetAt(project_root, commands, s) \in DOMAIN files
    /\ ret.result.value # None
    /\ ret.result.value[1].file # Cursor.file

\* the tokens of the files of the table
AllTokens(fs) ==
    UNION { UNION {Range(toks) : toks \in Range(TokenLines(fs[f]))} : f \in DOMAIN fs }

\* the cursor is in a file of the table on a column at which a token of its line
\* ends, or on whitespace of its line, and on no token
OffToken(fs, cursor_position) ==
    /\ cursor_position.file \in DOMAIN fs
    /\ TokensAt(fs, cursor_position) = {}
    /\ LET text == fs[cursor_position.file] IN
       \E offset \in 0..Len(text) :
           /\ Location(text, offset) =
                  [line |-> cursor_position.line, column |-> cursor_position.column]
           /\ \/ offset < Len(text) /\ IsWhitespace(text[offset + 1])
              \/ offset > 0 /\ ~IsWhitespace(text[offset])

\* C20: is_at_location(L) is true exactly when L is on the token's line and at a
\* column from the token's first up to, not including, the one after its last;
\* find_definition resolves the one token under the cursor, so what it returns is
\* a definition of that token's text, and it returns nothing when the cursor is on
\* whitespace or on the column at which a token ends.
C20_ResolvesTokenUnderCursor ==
    /\ \A t \in AllTokens(files) :
           \A line \in 0..MaxLine, column \in 0..MaxCol :
               is_at_location(t, [line |-> line, column |-> column])
                   <=> /\ line = t.location_in_file.line
                       /\ t.location_in_file.column <= column
                       /\ column < t.location_in_file.column + Len(t.text)
    /\ Asked =>
           /\ Cardinality(UsesAt(files, Cursor)) <= 1
           /\ \A t \in UsesAt(files, Cursor) :
                  ret.result.value # None =>
                      \E f \in DOMAIN files :
                          \E toks \in DefineLines(files[f], t.text) :
                              ret.result.value[1] = IdentifierOf(f, [identifier |-> Some(toks[2])])
           /\ OffToken(files, Cursor) => ret.result = Returned(None)

\* the places (counted from 1) of the escaped newlines among the first n
\* characters of a text: the newlines that directly follow a backslash
EscapedNewlines(text, n) ==
    {j \in 2..n : text[j] = "\n" /\ text[j - 1] = "\\"}

\* C21: within a logical line, a token that starts after k escaped newlines is
\* recorded on line start_line + k, at the column that is its offset from the
\* character after the last of them (from the start of the line when k = 0).
C21_PositionWithinLogicalLine ==
    tk_lines # None =>
        \A i \in 1..Len(tk_lines[1]) :
            \A t \in Range(tk_lines[1][i].tokens) :
                LET line == tk_lines[1][i].line
                    offset == t.span_start - line.span_start
                    before == EscapedNewlines(line.text, offset)
                IN  /\ t.location_in_file.line = line.start_line_in_file + Cardinality(before)
                    /\ t.location_in_file.column
                           = offset - (IF before = {} THEN 0 ELSE Max(before))

\* C21's case: a token that starts after two escaped newlines, or after one and
\* not at the first column, has been recorded
C21_Witness ==
    /\ tk_lines # None
    /\ \E i \in 1..Len(tk_lines[1]) :
           \E t \in Range(tk_lines[1][i].tokens) :
               /\ t.location_in_file.line = tk_lines[1][i].line.start_line_in_file + 1
               /\ t.location_in_file.column = 1

\* the places (counted from 1) at which a maximal run of characters that are not
\* whitespace starts in a text, and the place at which the run that starts at a
\* place ends
RunStarts(text) ==
    {i \in 1..Len(text) :
        ~IsWhitespace(text[i]) /\ (i = 1 \/ IsWhitespace(text[i - 1]))}
RunEnd(text, i) ==
    CHOOSE j \in i..Len(text) :
        /\ \A k \in i..j : ~IsWhitespace(text[k])
        /\ j = Len(text) \/ IsWhitespace(text[j + 1])

\* the run is the lone backslash that marks a continuation
ContinuationMark(text, i) ==
    text[i] = "\\" /\ RunEnd(text, i) = i /\ i < Len(text) /\ text[i + 1] = "\n"

\* C22: the tokens of a logical line are, from left to right, one token for each
\* maximal run of characters that are not whitespace, with the run as its text,
\* the lone backslash that marks a continuation being the only run without a token.
C22_OneTokenPerRun ==
    tk_lines # None =>
        \A i \in 1..Len(tk_lines[1]) :
            LET line == tk_lines[1][i].line
                toks == tk_lines[1][i].tokens
            IN  /\ {<<toks[n].span_start - line.span_start, toks[n].text>> : n \in 1..Len(toks)}
                       = {<<r - 1, SubSeq(line.text, r, RunEnd(line.text, r))>> :
                              r \in {q \in RunStarts(line.text) : ~ContinuationMark(line.text, q)}}
                /\ \A n \in 1..Len(toks) - 1 : toks[n].span_start < toks[n + 1].span_start

\* C23: a logical line ends exactly at each newline that is not escaped: a
\* physical line that ends in one backslash is merged with the next, any number of
\* them in a row, and the start_line of a logical line is the line of the file on
\* which its first physical line stands.
C23_LinesEndAtUnescapedNewlines ==
    tk_lines # None =>
        /\ \A j \in 1..Len(tk_text) :
               tk_text[j] = "\n" =>
                   /\ (j = 1 \/ tk_text[j - 1] # "\\")
                          => \E i \in 1..Len(tk_lines[1]) :
                                 LET line == tk_lines[1][i].line
                                 IN  line.span_start + Len(line.text) = j
                   /\ ( /\ j > 1 /\ j < Len(tk_text)
                         /\ tk_text[j - 1] = "\\" /\ (j = 2 \/ tk_text[j - 2] # "\\") )
                          => \A i \in 1..Len(tk_lines[1]) :
                                 LET line == tk_lines[1][i].line
                                 IN  line.span_start + Len(line.text) # j
        /\ \A i \in 1..Len(tk_lines[1]) :
               LET line == tk_lines[1][i].line
               IN  line.start_line_in_file = Location(tk_text, line.span_start).line

\* C24 as stated: the newline after two backslashes ends the logical line.
C24_TwoBackslashesEndLine ==
    tk_lines # None =>
        \A j \in 3..Len(tk_text) :
            ( /\ tk_text[j] = "\n" /\ tk_text[j - 1] = "\\" /\ tk_text[j - 2] = "\\"
              /\ (j = 3 \/ tk_text[j - 3] # "\\") )
            => \E i \in 1..Len(tk_lines[1]) :
                   LET line == tk_lines[1][i].line
                   IN  line.span_start + Len(line.text) = j

\* C24, amended: a newline continues the logical line whenever the character
\* before it is a backslash, whatever stands before that backslash: a physical
\* line that ends in two backslashes is continued like one that ends in one.  The
\* logical lines end at the newlines that do not follow a backslash, and at the
\* end of the text.
C24_AnyBackslashContinues ==
    tk_lines # None =>
        {tk_lines[1][i].line.span_start + Len(tk_lines[1][i].line.text) :
             i \in 1..Len(tk_lines[1])}
            = {j \in 1..Len(tk_text) :
                   \/ tk_text[j] = "\n" /\ (j = 1 \/ tk_text[j - 1] # "\\")
                   \/ j = Len(tk_text)}

\* C24's case: a text in which a newline follows two backslashes, and something
\* follows the newline, has been cut into one logical line
C24_Witness ==
    /\ tk_lines # None
    /\ Len(tk_lines[1]) = 1
    /\ \E j \in 3..Len(tk_text) - 1 :
           tk_text[j] = "\n" /\ tk_text[j - 1] = "\\" /\ tk_text[j - 2] = "\\"

\* C25: the logical lines of a text are contiguous and cover it: their texts, put
\* together in order, are the text, each starts where the one before it ends,
\* their start_line values increase strictly, and a last line without a newline
\* at its end is a logical line too.
C25_LinesCoverText ==
    tk_lines # None =>
        LET ls == [i \in 1..Len(tk_lines[1]) |-> tk_lines[1][i].line] IN
        /\ Concat([i \in 1..Len(ls) |-> ls[i].text]) = tk_text
        /\ \A i \in 1..Len(ls) :
               ls[i].span_start = IF i = 1 THEN 0
                                  ELSE ls[i - 1].span_start + Len(ls[i - 1].text)
        /\ \A i \in 1..Len(ls) - 1 :
               ls[i].start_line_in_file < ls[i + 1].start_line_in_file
        /\ (tk_text # <<>> /\ tk_text[Len(tk_text)] # "\n")
               => /\ ls # <<>>
                  /\ ls[Len(ls)].span_start + Len(ls[Len(ls)].text) = Len(tk_text)

\* C25's case: a text of three logical lines, the last without a newline at its
\* end, has been cut
C25_Witness ==
    /\ tk_lines # None
    /\ Len(tk_lines[1]) = 3
    /\ tk_text[Len(tk_text)] # "\n"

\* the first token of a logical line is the keyword
FirstIs(line, keyword) ==
    tokens(line) # <<>> /\ tokens(line)[1].text = keyword

\* the logical line (counted from 1) in which a token stands
LineOf(ls, token) ==
    CHOOSE i \in 1..Len(ls) :
        /\ ls[i].span_start <= token.span_start
        /\ token.span_start < ls[i].span_start + Len(ls[i].text)

\* the line that closes a define, by counting: from line j on with depth defines
\* open, the first `end` line met at depth 1; 0 when the lines run out first
RECURSIVE ClosingLine(_, _, _)
ClosingLine(ls, j, depth) ==
    IF j > Len(ls) THEN 0
    ELSE IF FirstIs(ls[j], end)
    THEN IF depth = 1 THEN j ELSE ClosingLine(ls, j + 1, depth - 1)
    ELSE IF FirstIs(ls[j], define) THEN ClosingLine(ls, j + 1, depth + 1)
    ELSE ClosingLine(ls, j + 1, depth)

\* the commands without the positions of their tokens
RECURSIVE Shape(_)
Shape(commands) ==
    [i \in 1..Len(commands) |->
        LET c == commands[i] IN
        IF c.kind = "Define"
        THEN <<"Define", TextsOf(c.identifier), Shape(c.body), TextsOf(c.end)>>
        ELSE IF c.kind = "Source"
        THEN <<"Source", TextsOf(c.file_path)>>
        ELSE <<"Other", c.command.text, TextsOf(c.args)>>]

\* the text of the logical lines from..to
TextOfLines(ls, from, to) ==
    Concat([i \in 1..(IF to >= from THEN to - from + 1 ELSE 0) |-> ls[from + i - 1].text])

\* the Define commands of a parse, at every depth
DefinesOf(commands) ==
    {c \in Range(Flattened(commands)) : c.kind = "Define"}

\* C26: a line whose first token is `define` gives a Define whose identifier is
\* the line's second token (absent if there is none), whose body is the parse of
\* the lines up to the first `end` line at the same depth, and whose end is the
\* first token of that line: each `end` closes the innermost open define.
C26_DefineBlock ==
    tk_commands # None =>
        LET ls == lines(tk_text) IN
        /\ {c.define : c \in DefinesOf(tk_commands[1])}
               = {tokens(ls[i])[1] : i \in {j \in 1..Len(ls) : FirstIs(ls[j], define)}}
        /\ \A c \in DefinesOf(tk_commands[1]) :
               LET i == LineOf(ls, c.define)
                   closing == ClosingLine(ls, i + 1, 1)
                   last == IF closing = 0 THEN Len(ls) ELSE closing - 1
               IN  /\ c.define = tokens(ls[i])[1]
                   /\ c.identifier = Next1(Tail(tokens(ls[i])))
                   /\ c.end = IF closing = 0 THEN None ELSE Some(tokens(ls[closing])[1])
                   /\ Shape(c.body) = Shape(parse(TextOfLines(ls, i + 1, last)))
                   /\ \A b \in Range(Flattened(c.body)) :
                          LineOf(ls, IF b.kind = "Define" THEN b.define
                                     ELSE IF b.kind = "Source" THEN b.source
                                     ELSE b.command) \in (i + 1)..last

\* C26's case: a define with an identifier, closed by its `end`, whose body holds
\* a define without identifier that is closed too
C26_Witness ==
    /\ tk_commands # None
    /\ \E n \in 1..Len(tk_commands[1]) :
           LET c == tk_commands[1][n] IN
           /\ c.kind = "Define" /\ c.identifier # None /\ c.end # None
           /\ \E m \in 1..Len(c.body) :
                  /\ c.body[m].kind = "Define"
                  /\ c.body[m].identifier = None
                  /\ c.body[m].end # None

\* the command sequences of a parse: the top level and every body
SequencesOf(commands) ==
    {commands} \cup {c.body : c \in DefinesOf(commands)}

\* C27: when the lines run out before the `end` of a define, that Define and every
\* Define that encloses it have no end, the innermost body is the parse of all the
\* lines that were left, and each such Define is the last command of its sequence;
\* an end that is present is a token `end`.
C27_UnterminatedDefine ==
    tk_commands # None =>
        LET ls == lines(tk_text) IN
        /\ \A c \in DefinesOf(tk_commands[1]) :
               LET i == LineOf(ls, c.define) IN
               /\ (c.end = None) = (ClosingLine(ls, i + 1, 1) = 0)
               /\ c.end # None =>
                      /\ c.end[1].text = end
                      /\ \A b \in DefinesOf(c.body) : b.end # None
               /\ (c.end = None /\ \A b \in DefinesOf(c.body) : b.end # None) =>
                      Shape(c.body) = Shape(parse(TextOfLines(ls, i + 1, Len(ls))))
        /\ \A seq \in SequencesOf(tk_commands[1]) :
               \A n \in 1..Len(seq) :
                   (seq[n].kind = "Define" /\ seq[n].end = None) => n = Len(seq)

\* C27's case: two defines, one in the other, neither with an end, and a command
\* in the body of the inner one
C27_Witness ==
    /\ tk_commands # None
    /\ tk_commands[1] # <<>>
    /\ LET c == tk_commands[1][Len(tk_commands[1])] IN
       /\ c.kind = "Define" /\ c.end = None /\ Len(c.body) = 1
       /\ c.body[1].kind = "Define" /\ c.body[1].end = None
       /\ Len(c.body[1].body) = 1
       /\ c.body[1].body[1].kind = "Other"

\* the number of defines open before logical line i, by counting
RECURSIVE DepthBefore(_, _)
DepthBefore(ls, i) ==
    IF i = 1 THEN 0
    ELSE LET depth == DepthBefore(ls, i - 1)
         IN  IF FirstIs(ls[i - 1], define) THEN depth + 1
             ELSE IF FirstIs(ls[i - 1], end) /\ depth > 0 THEN depth - 1
             ELSE depth

\* a text with the characters of some tokens replaced by spaces
WithoutTokens(text, toks) ==
    [j \in 1..Len(text) |->
        IF \E n \in 1..Len(toks) :
               j - 1 >= toks[n].span_start /\ j - 1 < toks[n].span_start + Len(toks[n].text)
        THEN " " ELSE text[j]]

\* C28: an `end` line met at top level with no define open gives no command and
\* does not stop the parse: the result is the parse of the text with the tokens
\* of that line taken out.
C28_StrayEndIgnored ==
    tk_commands # None =>
        LET ls == lines(tk_text) IN
        \A i \in 1..Len(ls) :
            (FirstIs(ls[i], end) /\ DepthBefore(ls, i) = 0) =>
                /\ Parsed(tk_commands[1])
                /\ tk_commands[1] = parse(WithoutTokens(tk_text, tokens(ls[i])))

\* C28's case: a stray `end` line of two tokens, not the first line, followed by a
\* line that gives a command
C28_Witness ==
    /\ tk_commands # None
    /\ LET ls == lines(tk_text) IN
       \E i \in 2..Len(ls) - 1 :
           /\ FirstIs(ls[i], end) /\ DepthBefore(ls, i) = 0
           /\ Len(tokens(ls[i])) = 2
           /\ \E c \in Range(tk_commands[1]) :
                  c.kind # "Define" /\ LineOf(ls, IF c.kind = "Source" THEN c.source
                                                  ELSE c.command) > i

\* C29: `define`, `end` and `source` are keywords only as the first token of a
\* line and only in exactly that spelling: a line with any other first token gives
\* one Other with that token as command and all the other tokens, in order, as
\* args, keywords among them too, and a line without tokens gives no command.
C29_KeywordsOnlyFirst ==
    tk_commands # None =>
        LET commandLines == SelectSeq(lines(tk_text),
                                LAMBDA l : tokens(l) # <<>> /\ tokens(l)[1].text # end)
            commands == Flattened(tk_commands[1])
        IN  /\ Len(commands) = Len(commandLines)
            /\ \A n \in 1..Len(commands) :
                   LET toks == tokens(commandLines[n])
                       c == commands[n]
                   IN  IF toks[1].text = define
                       THEN c.kind = "Define" /\ c.define = toks[1]
                       ELSE IF toks[1].text = source
                       THEN /\ c.kind = "Source" /\ c.source = toks[1]
                            /\ c.file_path = Next1(Tail(toks))
                       ELSE /\ c.kind = "Other" /\ c.command = toks[1]
                            /\ c.args = Tail(toks)

\* C29's case: a line `End define end source` inside a define has become an Other
\* with the three keywords as its args, after a line without tokens
C29_Witness ==
    /\ tk_commands # None
    /\ \E i \in 1..Len(lines(tk_text)) : tokens(lines(tk_text)[i]) = <<>>
    /\ \E d \in DefinesOf(tk_commands[1]) :
           \E c \in Range(d.body) :
               /\ c.kind = "Other"
               /\ c.command.text = <<"E", "n", "d">>
               /\ TextsOf(c.args) = <<define, end, source>>

\* C30: the completion context is built from the tokens of the cursor's logical
\* line whose end column, column + length, is below the cursor's column, and from
\* no other: Command when there is none, else the first as command and the others
\* as leading_args; and every token it is built from lies entirely before the
\* cursor.
C30_ContextFromTokensBeforeCursor ==
    ( /\ Completing
      /\ Cursor.file \in DOMAIN files
      /\ FindLine(lines(files[Cursor.file]), Cursor.line) # None )
    => LET script == files[Cursor.file]
           line == FindLine(lines(script), Cursor.line)[1]
           context == CompletionPosition_new(script, Cursor)
           included == SelectSeq(tokens(line),
                           LAMBDA t : t.location_in_file.column + Len(t.text) < Cursor.column)
       IN  /\ context = IF included = <<>>
                        THEN Some([kind |-> "Command"])
                        ELSE Some([kind |-> "Arg",
                                   command |-> included[1].text,
                                   leading_args |-> TextsOf(Tail(included))])
           /\ \A t \in Range(included) : t.location_in_file.line = Cursor.line

\* C31: the completion context exists whenever the cursor's line is a physical
\* line of the text, one on which some logical line has a character, the second
\* or a later physical line of a continued logical line included, and it is
\* absent only when no logical line reaches the cursor's line.
C31_ContextOnEveryPhysicalLine ==
    (Completing /\ Cursor.file \in DOMAIN files) =>
        LET text == files[Cursor.file] IN
        (CompletionPosition_new(text, Cursor) # None)
            = (\E offset \in 0..Len(text) - 1 : Location(text, offset).line = Cursor.line)

\* C32: the recursive load of an opened file comes to an end, for every storage
\* and every project root, also when files source themselves or one another in a
\* cycle through relative paths: it never ends in a stack overflow.
C32_LoadTerminates ==
    ret.op = "did_open" => ret.result.status # "stack_overflow"

\* the keys that find_definition_in looks up for the top-level `source`
\* commands of a text
LoadTargets(root, text) ==
    {canonicalize_path(root, c.file_path[1].text) : c \in Range(SourcesOf(text))}

\* the files of the table reached from a file through n or fewer `source`
\* commands
RECURSIVE ReachedFrom(_, _, _, _)
ReachedFrom(fs, root, file, n) ==
    IF n = 0 \/ file \notin DOMAIN fs THEN {file} \cap DOMAIN fs
    ELSE {file} \cup UNION {ReachedFrom(fs, root, target, n - 1) :
                               target \in LoadTargets(root, fs[file])}

\* C33: when the load started by opening file F has come to its end, the table
\* holds F and, under its canonicalized path, every readable file that F reaches
\* through top-level `source` commands, so that no lookup of a sourced file by
\* find_definition fails for a file that was not loaded.
C33_LoadedClosure ==
    (ret.op = "did_open" /\ ret.result.status = "returned") =>
        /\ ret.path \in DOMAIN files
        /\ \A file \in ReachedFrom(files, project_root, ret.path, Cardinality(Names)) :
               \A target \in LoadTargets(project_root, files[file]) :
                   target \in DOMAIN disk => target \in DOMAIN files

\* C33's case: a load into an empty table under the root /r has come to its end
\* with three files in the table, a chain of `source` commands from a over b to c
C33_Witness ==
    /\ ret.op = "did_open" /\ ret.result.status = "returned"
    /\ project_root = RootR
    /\ ret.known = {}
    /\ ret.path = Abs(NameA)
    /\ DOMAIN files = {Abs(NameA), Abs(NameB), Abs(NameC)}
    /\ Abs(NameB) \in LoadTargets(project_root, files[Abs(NameA)])
    /\ Abs(NameC) \in LoadTargets(project_root, files[Abs(NameB)])

\* the orders in which the paths of a set can be loaded
Orders(S) ==
    {order \in [1..Cardinality(S) -> S] : \A p \in S : \E i \in DOMAIN order : order[i] = p}

\* the file table of a fresh Semantics after set_file_text with the text of each
\* path of an order
RECURSIVE Loaded(_, _, _)
Loaded(root, texts, order) ==
    IF order = <<>> THEN <<>>
    ELSE set_file_text(Loaded(root, texts, SubSeq(order, 1, Len(order) - 1)), root,
                       order[Len(order)], texts[order[Len(order)]]).files

\* C34: the results of the queries depend only on project_root and the last text
\* given for each path: after any sequence of set_file_text calls the table holds
\* the text of the last call for its path, and a query returns what a fresh
\* Semantics returns that was given the texts of the table alone, in any order.
C34_QueriesSeeFinalTexts ==
    /\ ret.op = "set_file_text" => files[ret.path] = ret.text
    /\ \A order \in Orders(DOMAIN files) :
           /\ Loaded(project_root, files, order) = files
           /\ Asked => ret.result = find_definition(Loaded(project_root, files, order),
                                                    project_root, Cursor)
           /\ Completing => ret.result = find_completions(Loaded(project_root, files, order),
                                                          Cursor)

\* C34's case: in a table of three files, each given in its turn, a definition was
\* found in a file other than the queried one
C34_Witness ==
    /\ Asked
    /\ Cardinality(DOMAIN files) = 3
    /\ ret.result.status = "returned"
    /\ ret.result.value # None
    /\ ret.result.value[1].file # Cursor.file

\* the position find_definition returned, when it returned one
Found == Asked /\ ret.result.status = "returned" /\ ret.result.value # None

\* C35: whenever find_definition returns a position (f, l, c), f is a key of the
\* table and the tokens of the text of f include one recorded at line l, column c,
\* that has the text of the token resolved under the cursor and is the second
\* token of a logical line whose first token is `define`.
C35_ResultIsDefineIdentifier ==
    Found =>
        LET position == ret.result.value[1]
            token == ResolvedToken(files, Cursor)
        IN  /\ position.file \in DOMAIN files
            /\ token # None
            /\ \E toks \in Range(TokenLines(files[position.file])) :
                   /\ Len(toks) >= 2
                   /\ toks[1].text = define
                   /\ toks[2].text = token[1].text
                   /\ toks[2].location_in_file
                          = [line |-> position.line, column |-> position.column]

\* C35's case: a position was returned in a sourced file that has a continued
\* line before its define
C35_Witness ==
    /\ Found
    /\ ret.result.value[1].file # Cursor.file
    /\ files[ret.result.value[1].file] = Concat(<<Continued, DefineHi>>)

====
